---- MODULE Spec2Model ----
(***************************************************************************)
(* Model of the document ingestion and query pipelines of rag-app-on-aws:  *)
(* the upload handler, the document processor (key resolver,               *)
(* process_document, handler) and the query processor (similarity_search,  *)
(* evaluator).  Strings the code inspects character by character (object   *)
(* keys, evaluator replies) are sequences of one-character strings.        *)
(***************************************************************************)
EXTENDS Integers, Sequences, FiniteSets, TLC

(***************************************************************************)
(* Characters and Python string primitives                                 *)
(***************************************************************************)

\* The printable ASCII characters, code 32 first (the double quote, the
\* backslash and the backquote, which no key of the model contains, are named
\* ?dq, ?bs and ?bt).
Printable ==
  << " ", "!", "?dq", "#", "$", "%", "&", "'", "(", ")", "*", "+", ",", "-", ".", "/",
     "0", "1", "2", "3", "4", "5", "6", "7", "8", "9", ":", ";", "<", "=", ">", "?",
     "@", "A", "B", "C", "D", "E", "F", "G", "H", "I", "J", "K", "L", "M", "N", "O",
     "P", "Q", "R", "S", "T", "U", "V", "W", "X", "Y", "Z", "[", "?bs", "]", "^", "_",
     "?bt", "a", "b", "c", "d", "e", "f", "g", "h", "i", "j", "k", "l", "m", "n", "o",
     "p", "q", "r", "s", "t", "u", "v", "w", "x", "y", "z", "{", "|", "}", "~" >>

Ord(c) == 31 + (CHOOSE i \in 1..Len(Printable) : Printable[i] = c)

\* chr() on the codes an escape of this model can denote; a code outside
\* printable ASCII is kept as a character of its own.
Chr(n) == IF n >= 32 /\ n <= 126 THEN Printable[n - 31] ELSE "?ctl"

Digits == {"0", "1", "2", "3", "4", "5", "6", "7", "8", "9"}

HexChars == Digits \cup {"A", "B", "C", "D", "E", "F", "a", "b", "c", "d", "e", "f"}

HexVal(c) ==
  IF c \in Digits THEN Ord(c) - 48
  ELSE IF c \in {"A", "B", "C", "D", "E", "F"} THEN Ord(c) - 55
  ELSE Ord(c) - 87

HexDigit(n) == << "0", "1", "2", "3", "4", "5", "6", "7", "8", "9", "A", "B", "C", "D", "E", "F" >>[n + 1]

\* urllib.parse._ALWAYS_SAFE
AlwaysSafe ==
  { Printable[i] : i \in 34..59 } \cup { Printable[i] : i \in 66..91 }
    \cup Digits \cup {"_", ".", "-", "~"}

\* str.replace for a one-character pattern.
ReplaceChar(s, old, new) == [ i \in 1..Len(s) |-> IF s[i] = old THEN new ELSE s[i] ]

RECURSIVE ReplacePct20(_)
\* str.replace('%20', ' '): leftmost, non-overlapping occurrences.
ReplacePct20(s) ==
  IF s = << >> THEN << >>
  ELSE IF Len(s) >= 3 /\ s[1] = "%" /\ s[2] = "2" /\ s[3] = "0"
       THEN << " " >> \o ReplacePct20(SubSeq(s, 4, Len(s)))
       ELSE << s[1] >> \o ReplacePct20(Tail(s))

RECURSIVE Unquote(_)
\* urllib.parse.unquote: each %XX with two hex digits becomes its character.
Unquote(s) ==
  IF s = << >> THEN << >>
  ELSE IF Len(s) >= 3 /\ s[1] = "%" /\ s[2] \in HexChars /\ s[3] \in HexChars
       THEN << Chr(16 * HexVal(s[2]) + HexVal(s[3])) >> \o Unquote(SubSeq(s, 4, Len(s)))
       ELSE << s[1] >> \o Unquote(Tail(s))

\* Mutant of UnquotePlus: the '+' is not decoded.
UnquotePlus_NoPlus(s) == Unquote(s)

\* urllib.parse.unquote_plus: '+' becomes a space, then unquote.
UnquotePlus(s) == Unquote(ReplaceChar(s, "+", " "))

RECURSIVE Quote(_, _)
\* urllib.parse.quote(s, safe): every character outside the always-safe
\* set and safe becomes %XX (upper-case hex).
Quote(s, safe) ==
  IF s = << >> THEN << >>
  ELSE IF s[1] \in AlwaysSafe \cup safe
       THEN << s[1] >> \o Quote(Tail(s), safe)
       ELSE << "%", HexDigit(Ord(s[1]) \div 16), HexDigit(Ord(s[1]) % 16) >> \o Quote(Tail(s), safe)

\* urllib.parse.quote_plus(s): quote with the space kept, then space -> '+'.
QuotePlus(s) == ReplaceChar(Quote(s, {" "}), " ", "+")

\* Index of the last '/' of s, 0 when there is none.
LastSlash(s) ==
  IF \E i \in 1..Len(s) : s[i] = "/"
  THEN CHOOSE i \in 1..Len(s) : s[i] = "/" /\ \A j \in (i + 1)..Len(s) : s[j] # "/"
  ELSE 0

\* key.split('/')[-1]
FileNameOf(key) == SubSeq(key, LastSlash(key) + 1, Len(key))

\* '/'.join(key.split('/')[:-1]) + '/'
PrefixOf(key) == IF LastSlash(key) = 0 THEN << "/" >> ELSE SubSeq(key, 1, LastSlash(key))

StartsWith(s, p) == Len(s) >= Len(p) /\ SubSeq(s, 1, Len(p)) = p

\* Lexicographic (byte) order, the order of an object listing.
RECURSIVE LexLess(_, _)
LexLess(a, b) ==
  IF a = << >> THEN b # << >>
  ELSE IF b = << >> THEN FALSE
  ELSE IF a[1] # b[1] THEN Ord(a[1]) < Ord(b[1])
  ELSE LexLess(Tail(a), Tail(b))

RECURSIVE SortKeys(_)
SortKeys(S) ==
  IF S = {} THEN << >>
  ELSE LET m == CHOOSE k \in S : \A o \in S \ {k} : LexLess(k, o)
       IN << m >> \o SortKeys(S \ {m})

InSeq(x, s) == \E i \in 1..Len(s) : s[i] = x

(***************************************************************************)
(* Key resolver (document_processor.get_s3_object_with_various_encoding)   *)
(***************************************************************************)

\* Mutant of KeysToTry: the percent-encoded key is tried before the
\* plus-encoded key.
KeysToTry_PercentFirst(key) ==
  LET decoded_key == UnquotePlus(key)
      k2 == IF decoded_key # key THEN << key, decoded_key >> ELSE << key >>
      encoded_key_alt == Quote(decoded_key, {"/"})
      k3 == IF encoded_key_alt # key /\ ~InSeq(encoded_key_alt, k2)
            THEN Append(k2, encoded_key_alt) ELSE k2
      encoded_key == QuotePlus(decoded_key)
  IN IF encoded_key # key /\ ~InSeq(encoded_key, k3)
     THEN Append(k3, encoded_key) ELSE k3

\* keys_to_try: the literal key, then the decoded, plus-encoded and
\* percent-encoded forms, each appended under the code's own condition.
KeysToTry(key) ==
  LET decoded_key == UnquotePlus(key)
      k2 == IF decoded_key # key THEN << key, decoded_key >> ELSE << key >>
      encoded_key == QuotePlus(decoded_key)
      k3 == IF encoded_key # key /\ encoded_key # decoded_key
            THEN Append(k2, encoded_key) ELSE k2
      encoded_key_alt == Quote(decoded_key, {"/"})
  IN IF encoded_key_alt # key /\ ~InSeq(encoded_key_alt, k3)
     THEN Append(k3, encoded_key_alt) ELSE k3

\* The filename comparison of the prefix listing: '+' and '%20' count as spaces.
NormalizeFileName(key) == ReplacePct20(ReplaceChar(FileNameOf(key), "+", " "))

\* list_objects_v2(Prefix=prefix): the stored keys under the prefix, in key order.
ListObjects(objects, prefix) == SortKeys({ k \in objects : StartsWith(k, prefix) })

\* The keys of a sequence up to and including the first one head_object
\* accepts (all of them when none is accepted).
RECURSIVE ProbeUntilHit(_, _)
ProbeUntilHit(keys, headable) ==
  IF keys = << >> THEN << >>
  ELSE IF keys[1] \in headable THEN << keys[1] >>
  ELSE << keys[1] >> \o ProbeUntilHit(Tail(keys), headable)

\* The resolver.  objects: the keys stored in the bucket; denied: stored keys
\* whose head_object fails all the same; listOk: whether list_objects_v2
\* answers.  The result records the head_object calls in the order made.
get_s3_object_with_various_encoding(objects, denied, listOk, key) ==
  LET headable == objects \ denied
      tried    == KeysToTry(key)
      probes1  == ProbeUntilHit(tried, headable)
      hit1     == probes1[Len(probes1)] \in headable
      Matches(actual_key) == NormalizeFileName(key) = NormalizeFileName(actual_key)
      listed   == IF listOk
                  THEN SelectSeq(ListObjects(objects, PrefixOf(key)), Matches)
                  ELSE << >>
      probes2  == ProbeUntilHit(listed, headable)
      hit2     == probes2 # << >> /\ probes2[Len(probes2)] \in headable
  IN IF hit1
     THEN [found |-> TRUE, key |-> probes1[Len(probes1)], probes |-> probes1,
           listCalled |-> FALSE, tried |-> tried]
     ELSE IF hit2
     THEN [found |-> TRUE, key |-> probes2[Len(probes2)], probes |-> probes1 \o probes2,
           listCalled |-> TRUE, tried |-> tried]
     ELSE [found |-> FALSE, key |-> << >>, probes |-> probes1 \o probes2,
           listCalled |-> TRUE, tried |-> tried]

(***************************************************************************)
(* Bounds and input domains                                                *)
(***************************************************************************)

MaxUploads == 1    \* upload requests that store an object
MaxRuns    == 1    \* ingestion events handled
MaxChunks  == 2    \* chunks the chunker yields for one document
MaxSearch  == 1    \* similarity searches issued
MaxQueries == 1    \* requests the query handler receives

U1 == << "u", "1" >>
U2 == << "u", "2" >>
\* The default tenant of both handlers.
SystemUser == << "s", "y", "s", "t", "e", "m" >>

UploadsDir == << "u", "p", "l", "o", "a", "d", "s" >>

\* The file name of the upload requests: one with a literal space.
FileAB == << "a", " ", "b", ".", "t", "x", "t" >>

\* An object put into the bucket by other means, outside the uploads layout.
NotesKey == << "n", ".", "t", "x", "t" >>

\* An event key naming an object that was never stored.
GoneKey == UploadsDir \o << "/" >> \o U2 \o << "/", "d", "9", "/", "g", ".", "t", "x", "t" >>

\* str(uuid.uuid4()) of the n-th upload: a fresh identifier.
DocumentId(n) == << "d", Chr(48 + n) >>

\* The vector the embedding service returns for the i-th chunk text: unit
\* vectors of the plane, never the zero vector.
EmbeddingOf(i) == IF i % 2 = 1 THEN << 1, 0 >> ELSE << -1, 0 >>

\* [0.0] * 768, the substitute of a failed embedding call.
ZeroVector == << 0, 0 >>

(***************************************************************************)
(* Helpers of the handlers                                                 *)
(***************************************************************************)

RECURSIVE Split(_)
\* str.split('/')
Split(s) ==
  IF LastSlash(s) = 0 THEN << s >>
  ELSE Append(Split(SubSeq(s, 1, LastSlash(s) - 1)), SubSeq(s, LastSlash(s) + 1, Len(s)))

\* str.lower()
Lower(s) == [ i \in 1..Len(s) |-> IF Ord(s[i]) >= 65 /\ Ord(s[i]) <= 90 THEN Chr(Ord(s[i]) + 32) ELSE s[i] ]

LastDot(s) ==
  IF \E i \in 1..Len(s) : s[i] = "."
  THEN CHOOSE i \in 1..Len(s) : s[i] = "." /\ \A j \in (i + 1)..Len(s) : s[j] # "."
  ELSE 0

\* file_name.split('.')[-1].lower()
Extension(file_name) == Lower(SubSeq(file_name, LastDot(file_name) + 1, Len(file_name)))

FirstDot(s) ==
  IF \E i \in 1..Len(s) : s[i] = "."
  THEN CHOOSE i \in 1..Len(s) : s[i] = "." /\ \A j \in 1..(i - 1) : s[j] # "."
  ELSE Len(s) + 1

\* key.split('/')[-1].split('.')[0]
Stem(key) == SubSeq(FileNameOf(key), 1, FirstDot(FileNameOf(key)) - 1)

\* The MIME type the ingestion handler derives from the extension.
IngestMimeType(file_name) ==
  LET e == Extension(file_name)
  IN IF e = << "p", "d", "f" >> THEN "application/pdf"
     ELSE IF e = << "t", "x", "t" >> THEN "text/plain"
     ELSE IF e = << "c", "s", "v" >> THEN "text/csv"
     ELSE "application/octet-stream"

\* upload_handler.get_mime_type: the mime_types table, with its default.
get_mime_type(file_name) ==
  LET e == Extension(file_name)
  IN IF e = << "p", "d", "f" >> THEN "application/pdf"
     ELSE IF e = << "t", "x", "t" >> THEN "text/plain"
     ELSE IF e = << "c", "s", "v" >> THEN "text/csv"
     ELSE IF e = << "d", "o", "c" >> THEN "application/msword"
     ELSE IF e = << "d", "o", "c", "x" >>
       THEN "application/vnd.openxmlformats-officedocument.wordprocessingml.document"
     ELSE IF e = << "x", "l", "s" >> THEN "application/vnd.ms-excel"
     ELSE IF e = << "x", "l", "s", "x" >>
       THEN "application/vnd.openxmlformats-officedocument.spreadsheetml.sheet"
     ELSE IF e = << "m", "d" >> THEN "text/markdown"
     ELSE IF e = << "j", "s", "o", "n" >> THEN "application/json"
     ELSE "application/octet-stream"

\* f"uploads/{user_id}/{document_id}/{file_name}"
UploadKey(user_id, document_id, file_name) ==
  UploadsDir \o << "/" >> \o user_id \o << "/" >> \o document_id \o << "/" >> \o file_name

\* The key an object-created notification carries: percent-encoded with '+'
\* for a space and '/' kept.
EventKeyOf(key) == ReplaceChar(Quote(key, {"/", " "}), " ", "+")

\* The ingestion handler's reading of a decoded key:
\* uploads/{user_id}/{document_id}/{file_name}, or the fallback.
ParseKey(key) ==
  LET parts == Split(key)
  IN IF Len(parts) >= 4
     THEN [user_id |-> parts[2], document_id |-> parts[3], file_name |-> parts[4]]
     ELSE [user_id |-> SystemUser, document_id |-> Stem(key), file_name |-> FileNameOf(key)]

\* table.put_item: the item replaces the one with the same id.
PutItem(table, item) == { x \in table : x.document_id # item.document_id } \cup { item }

(***************************************************************************)
(* Vector search (query_processor.similarity_search)                       *)
(***************************************************************************)

\* The float NaN, as an integer no distance or score of the model equals.
NaN == 999

Dot(a, b) == a[1] * b[1] + a[2] * b[2]

NormSq(a) == Dot(a, a)

\* Integer square root of a perfect square.
ISqrt(n) == CHOOSE r \in 0..n : r * r = n

\* The <=> operator of the vector extension: 1 - cos(a, b), NaN when either
\* vector is zero.  The model's vectors have integer norms.
CosineDistance(a, b) ==
  IF NormSq(a) * NormSq(b) = 0 THEN NaN
  ELSE 1 - (Dot(a, b) \div ISqrt(NormSq(a) * NormSq(b)))

\* ORDER BY on a float column: NaN sorts after every number.
DistLeq(x, y) == IF x = NaN THEN y = NaN ELSE (y = NaN \/ x <= y)

\* 1 - (c.embedding <=> q)
SimilarityScore(dist) == IF dist = NaN THEN NaN ELSE 1 - dist

RECURSIVE JoinRows_NoTenantFilter(_, _, _)
\* Mutant of JoinRows: the WHERE clause on the tenant is missing.
JoinRows_NoTenantFilter(chunkRows, documentRows, user_id) ==
  IF chunkRows = << >> THEN << >>
  ELSE LET c == chunkRows[1]
           Owns(d) == d.document_id = c.document_id
           ds == SelectSeq(documentRows, Owns)
       IN [ j \in 1..Len(ds) |-> [c |-> c, d |-> ds[j]] ]
            \o JoinRows_NoTenantFilter(Tail(chunkRows), documentRows, user_id)

RECURSIVE JoinRows(_, _, _)
\* chunks c JOIN documents d ON c.document_id = d.document_id WHERE
\* c.user_id = user_id: one row per matching (chunk, document) pair.
JoinRows(chunkRows, documentRows, user_id) ==
  IF chunkRows = << >> THEN << >>
  ELSE LET c == chunkRows[1]
           Owns(d) == d.document_id = c.document_id
           ds == SelectSeq(documentRows, Owns)
           here == IF c.user_id = user_id
                   THEN [ j \in 1..Len(ds) |-> [c |-> c, d |-> ds[j]] ]
                   ELSE << >>
       IN here \o JoinRows(Tail(chunkRows), documentRows, user_id)

RECURSIVE InsertByDistance(_, _, _)
\* Insert row x into the sorted sequence s, after the rows at most as far.
InsertByDistance(s, x, q) ==
  IF s = << >> THEN << x >>
  ELSE IF DistLeq(CosineDistance(s[1].c.embedding, q), CosineDistance(x.c.embedding, q))
       THEN << s[1] >> \o InsertByDistance(Tail(s), x, q)
       ELSE << x >> \o s

RECURSIVE OrderByDistance(_, _)
\* ORDER BY c.embedding <=> q; rows equally far keep the order of the join.
OrderByDistance(rows, q) ==
  IF rows = << >> THEN << >>
  ELSE InsertByDistance(OrderByDistance(SubSeq(rows, 1, Len(rows) - 1), q), rows[Len(rows)], q)

\* LIMIT
Limit(rows, limit) == SubSeq(rows, 1, IF Len(rows) < limit THEN Len(rows) ELSE limit)

\* The handler's limit: the default of similarity_search.
DefaultLimit == 5

\* The result list of similarity_search on the committed rows.
similarity_search(documentRows, chunkRows, query_embedding, user_id, limit) ==
  LET rows == Limit(OrderByDistance(JoinRows(chunkRows, documentRows, user_id), query_embedding), limit)
  IN [ j \in 1..Len(rows) |->
         [ chunk_id    |-> rows[j].c.chunk_id,
           document_id |-> rows[j].c.document_id,
           user_id     |-> rows[j].c.user_id,
           content     |-> rows[j].c.content,
           metadata    |-> rows[j].c.metadata,
           file_name   |-> rows[j].d.file_name,
           similarity_score |-> SimilarityScore(CosineDistance(rows[j].c.embedding, query_embedding)) ] ]

(***************************************************************************)
(* Evaluator (query_processor.GeminiRagEvaluator, evaluate_rag_response)   *)
(***************************************************************************)

MaxReplyLen == 3   \* characters in a reply of the auxiliary model

\* The characters of a reply: digits, the point, a sign, a blank, a letter.
ReplyChars == { "0", "7", ".", "-", " ", "x" }

RECURSIVE Pow10(_)
Pow10(k) == IF k = 0 THEN 1 ELSE 10 * Pow10(k - 1)

\* Ratings are fixed-point numbers: the float 1.0 is One.
One == Pow10(MaxReplyLen)

\* The neutral default 0.5.
Half == One \div 2

RECURSIVE Strip(_)
\* str.strip()
Strip(s) ==
  IF s = << >> THEN s
  ELSE IF s[1] = " " THEN Strip(Tail(s))
  ELSE IF s[Len(s)] = " " THEN Strip(SubSeq(s, 1, Len(s) - 1))
  ELSE s

\* The end of the run of digits of s that starts at position p (p - 1 when
\* s has no digit there).
DigitsEnd(s, p) ==
  IF \E e \in p..Len(s) : \A i \in p..e : s[i] \in Digits
  THEN CHOOSE e \in p..Len(s) :
         /\ \A i \in p..e : s[i] \in Digits
         /\ (e = Len(s) \/ s[e + 1] \notin Digits)
  ELSE p - 1

\* re.findall(r"0\.\d+|\d+\.?\d*", s)[0]: the leftmost match, << >> when
\* there is none.  A match starts at the first digit; the first alternative
\* is tried first.
FirstMatch(s) ==
  IF ~ \E p \in 1..Len(s) : s[p] \in Digits THEN << >>
  ELSE LET p == CHOOSE q \in 1..Len(s) : s[q] \in Digits /\ \A i \in 1..(q - 1) : s[i] \notin Digits
       IN IF s[p] = "0" /\ p + 2 <= Len(s) /\ s[p + 1] = "." /\ s[p + 2] \in Digits
          THEN SubSeq(s, p, DigitsEnd(s, p + 2))
          ELSE LET e1 == DigitsEnd(s, p)
                   e2 == IF e1 < Len(s) /\ s[e1 + 1] = "." THEN e1 + 1 ELSE e1
                   e3 == IF e2 < Len(s) THEN DigitsEnd(s, e2 + 1) ELSE e2
               IN SubSeq(s, p, e3)

RECURSIVE DigitsValue(_)
DigitsValue(s) == IF s = << >> THEN 0 ELSE 10 * DigitsValue(SubSeq(s, 1, Len(s) - 1)) + HexVal(s[Len(s)])

\* float(m) of a match m = digits [ "." digits ], in units of 1/One.
FloatOf(m) ==
  LET dot == IF \E i \in 1..Len(m) : m[i] = "." THEN CHOOSE i \in 1..Len(m) : m[i] = "." ELSE Len(m) + 1
      int == SubSeq(m, 1, dot - 1)
      frac == SubSeq(m, dot + 1, Len(m))
  IN DigitsValue(int) * One + DigitsValue(frac) * Pow10(MaxReplyLen - Len(frac))

\* Mutant of Clamp: the upper bound is missing.
Clamp_NoUpper(rating) == IF rating < 0 THEN 0 ELSE rating

\* min(max(rating, 0.0), 1.0)
Clamp(rating) == IF rating < 0 THEN 0 ELSE IF rating > One THEN One ELSE rating

\* Mutant of EvaluateMetric: a reply without a number rates 0.
EvaluateMetric_ZeroDefault(reply) ==
  IF reply.kind # "text" THEN 0
  ELSE LET rating_text == Strip(reply.text)
       IN IF rating_text = << >> THEN 0
          ELSE IF FirstMatch(rating_text) = << >> THEN 0
          ELSE Clamp(FloatOf(FirstMatch(rating_text)))

\* The body shared by _evaluate_answer_relevancy, _evaluate_faithfulness and
\* _evaluate_context_precision: one generation call, then the rating read
\* from the reply.  kind "raise": the call fails; "none": the reply has no
\* text; "text": the reply text.
EvaluateMetric(reply) ==
  IF reply.kind # "text" THEN Half
  ELSE LET rating_text == Strip(reply.text)
       IN IF rating_text = << >> THEN Half
          ELSE IF FirstMatch(rating_text) = << >> THEN Half
          ELSE Clamp(FloatOf(FirstMatch(rating_text)))

\* Whether the call returned a reply in which re.findall finds a number.
HasNumber(reply) == reply.kind = "text" /\ FirstMatch(Strip(reply.text)) # << >>

\* Whether the rating read from the reply was outside [0, 1] before clamping.
OutOfRange(reply) ==
  /\ reply.kind = "text"
  /\ FirstMatch(Strip(reply.text)) # << >>
  /\ FloatOf(FirstMatch(Strip(reply.text))) > One

RECURSIVE TextsOfLen(_)
TextsOfLen(n) ==
  IF n = 0 THEN { << >> }
  ELSE { Append(t, c) : t \in TextsOfLen(n - 1), c \in ReplyChars }

\* Every reply: a failed call, a reply without text, every text up to MaxReplyLen.
Replies ==
  { [kind |-> "raise", text |-> << >>], [kind |-> "none", text |-> << >>] }
    \cup { [kind |-> "text", text |-> t] : t \in UNION { TextsOfLen(n) : n \in 0..MaxReplyLen } }

\* if ground_truth: the reference answer is absent (None), empty or a text.
Truthy(ground_truth) == ground_truth = "text"

\* Mutant of FixedResults: context_precision is never part of the dictionary.
FixedResults_NoPrecision(value, ground_truth) ==
  [ m \in { "answer_relevancy", "faithfulness" } |-> value ]

\* The placeholder and the fallback dictionaries of evaluate_rag_response.
FixedResults(value, ground_truth) ==
  IF Truthy(ground_truth)
  THEN [ m \in { "answer_relevancy", "faithfulness", "context_precision" } |-> value ]
  ELSE [ m \in { "answer_relevancy", "faithfulness" } |-> value ]


(***************************************************************************)
(* State                                                                   *)
(***************************************************************************)

VARIABLES
  s3,         \* the keys of the objects in the documents bucket
  documents,  \* committed rows of table documents, in insertion order
  chunks,     \* committed rows of table chunks, in insertion order
  metadata,   \* the items of the metadata table
  up,         \* the upload handler's invocation
  ing,        \* the document processor's invocation
  nruns,      \* ingestion events handled so far
  search,     \* the last call of similarity_search
  uploads,    \* document ids issued so far
  searches,   \* similarity searches issued so far
  res,        \* a call of the key resolver on its own
  ev,         \* an evaluation of one query response
  qh,         \* the query handler's invocation
  key_trip,   \* an object key on its way from the upload to the ingestion handler
  dbinit      \* a call of create_database_if_not_exists or initialize_database

vars == << s3, documents, chunks, metadata, up, ing, nruns, search, uploads, searches, res, ev, qh, key_trip, dbinit >>

UpIdle ==
  [ pc |-> "idle", user_id |-> << >>, document_id |-> << >>, file_name |-> << >>,
    mime_type |-> "", key |-> << >>, conn |-> "none", status |-> 0 ]

IngIdle ==
  [ pc |-> "idle", key |-> << >>, user_id |-> << >>, document_id |-> << >>,
    mime_type |-> "", n |-> 0, i |-> 0, txn |-> << >>, chunk_ids |-> << >>,
    embedding |-> ZeroVector, conn |-> "none", tmp |-> "none", status |-> 0,
    run |-> 0, found |-> FALSE, returned |-> FALSE,
    embedFailed |-> FALSE, message |-> "none", probe |-> FALSE, records |-> FALSE,
    embeds |-> 0, inserts |-> 0, num_chunks |-> 0 ]

SearchIdle ==
  [ called |-> FALSE, user_id |-> << >>, query_embedding |-> ZeroVector,
    raised |-> FALSE, conn |-> "none", results |-> << >> ]

ResIdle ==
  [ done |-> FALSE, objects |-> {}, denied |-> {}, listOk |-> TRUE, key |-> << >>,
    out |-> [found |-> FALSE, key |-> << >>, probes |-> << >>, listCalled |-> FALSE, tried |-> << >>] ]

\* No key has been built or received.
KeyIdle ==
  [ pc |-> "idle", uploaded |-> FALSE, user_id |-> << >>, document_id |-> << >>,
    file_name |-> << >>, s3_key |-> << >>, event_key |-> << >>,
    parsed |-> [user_id |-> << >>, document_id |-> << >>, file_name |-> << >>] ]

\* No call of the database initialisation functions has been made.
DbIdle ==
  [ pc |-> "idle", fn |-> "none", max_retries |-> 0, retry_count |-> 0,
    attempts |-> 0, sleeps |-> 0, outcomes |-> << >>, result |-> "none" ]

\* No request: the query handler has not been invoked.
QhIdle ==
  [ pc |-> "idle", n |-> 0, health |-> FALSE, body |-> "absent", query |-> "absent",
    user_id |-> << >>, ground_truth |-> "none", enable_evaluation |-> FALSE,
    requested |-> "absent", config |-> TRUE, query_embedding |-> ZeroVector, dim |-> 0, embedFailed |-> FALSE,
    searchFailed |-> FALSE, response |-> "none", evaluated |-> FALSE,
    calls |-> [ embed |-> 0, connect |-> 0, generate |-> 0 ],
    status |-> 0, message |-> "none", evaluation |-> << >> ]

EvIdle ==
  [ pc |-> "idle", ground_truth |-> "none", results |-> << >>, calls |-> 0,
    clamped |-> FALSE, defaulted |-> FALSE, path |-> "none", parsed |-> << >> ]

\* The rows an earlier, successful ingestion of NotesKey (one chunk) has left:
\* run 0.  Rows carry the writer in a history field: by/run is the number of
\* the ingestion run, -1 for the upload handler.
SeededDocuments ==
  << [ document_id |-> Stem(NotesKey), user_id |-> SystemUser, file_name |-> NotesKey,
       mime_type |-> "text/plain", status |-> "processed", key |-> NotesKey, by |-> 0 ] >>

SeededChunks ==
  << [ chunk_id |-> 1, document_id |-> Stem(NotesKey), user_id |-> SystemUser,
       content |-> 1, metadata |-> [source |-> NotesKey, page |-> 0],
       embedding |-> EmbeddingOf(1), run |-> 0 ] >>

SeededMetadata ==
  { [ document_id |-> Stem(NotesKey), user_id |-> SystemUser, status |-> "processed", by |-> 0 ] }

\* The store is empty, or holds what the earlier ingestion left.
StoreInit ==
  /\ s3 = { NotesKey }
  /\ \/ documents = << >> /\ chunks = << >> /\ metadata = {}
     \/ documents = SeededDocuments /\ chunks = SeededChunks /\ metadata = SeededMetadata
  /\ up = UpIdle
  /\ ing = IngIdle
  /\ nruns = 0
  /\ search = SearchIdle
  /\ uploads = 0
  /\ searches = 0

Init ==
  /\ StoreInit /\ res = ResIdle /\ ev = EvIdle /\ qh = QhIdle
  /\ key_trip = KeyIdle /\ dbinit = DbIdle

(***************************************************************************)
(* Upload handler (upload_handler.handler)                                 *)
(***************************************************************************)

\* The request bodies: file_name may be absent (<< >>).
UploadRequests ==
  [ healthcheck : BOOLEAN, file_content : BOOLEAN, file_name : { FileAB, << >> },
    user_id : { U1 } ]

\* Entry up to and including put_object: health probe, validation, uuid4,
\* the key, the upload.  A failed put_object ends the request with status 500.
UploadReceive(req, putOk) ==
  /\ up.pc \in { "idle", "done" }
  /\ IF req.healthcheck
     THEN up' = [UpIdle EXCEPT !.pc = "done", !.status = 200] /\ UNCHANGED << uploads, s3 >>
     ELSE IF ~req.file_content \/ req.file_name = << >>
     THEN up' = [UpIdle EXCEPT !.pc = "done", !.status = 400] /\ UNCHANGED << uploads, s3 >>
     ELSE /\ uploads < MaxUploads
          /\ uploads' = uploads + 1
          /\ LET user_id == IF req.user_id = << >> THEN SystemUser ELSE req.user_id
                 document_id == DocumentId(uploads + 1)
                 s3_key == UploadKey(user_id, document_id, req.file_name)
             IN IF putOk
                THEN /\ s3' = s3 \cup { s3_key }
                     /\ up' = [UpIdle EXCEPT !.pc = "pg", !.user_id = user_id,
                                             !.document_id = document_id,
                                             !.file_name = req.file_name,
                                             !.mime_type = get_mime_type(req.file_name),
                                             !.key = s3_key]
                ELSE /\ s3' = s3
                     /\ up' = [UpIdle EXCEPT !.pc = "done", !.status = 500,
                                             !.document_id = document_id]
  /\ UNCHANGED << documents, chunks, metadata, ing, nruns, search, searches, res, ev, qh, key_trip, dbinit >>

\* The try block that inserts the Document row as 'uploaded' and commits;
\* its failure is logged and the handler goes on.  outcome: "ok", "noconn"
\* (credentials or connect failed) or "failed" (execute or commit failed,
\* the connection stays open).
UploadStoreDocument(outcome) ==
  /\ up.pc = "pg"
  /\ IF outcome = "ok"
     THEN /\ documents' = Append(documents,
                [ document_id |-> up.document_id, user_id |-> up.user_id,
                  file_name |-> up.file_name, mime_type |-> up.mime_type,
                  status |-> "uploaded", key |-> up.key, by |-> -1 ])
          /\ up' = [up EXCEPT !.pc = "meta", !.conn = "closed"]
     ELSE /\ documents' = documents
          /\ up' = [up EXCEPT !.pc = "meta",
                              !.conn = IF outcome = "failed" THEN "open" ELSE "none"]
  /\ UNCHANGED << s3, chunks, metadata, ing, nruns, search, uploads, searches, res, ev, qh, key_trip, dbinit >>

\* metadata_table.put_item with status 'uploaded', then the 200 response.
UploadPutMetadata(ok) ==
  /\ up.pc = "meta"
  /\ IF ok
     THEN /\ metadata' = PutItem(metadata,
                [ document_id |-> up.document_id, user_id |-> up.user_id,
                  status |-> "uploaded", by |-> -1 ])
          /\ up' = [up EXCEPT !.pc = "done", !.status = 200]
     ELSE /\ metadata' = metadata
          /\ up' = [up EXCEPT !.pc = "done", !.status = 500]
  /\ UNCHANGED << s3, documents, chunks, ing, nruns, search, uploads, searches, res, ev, qh, key_trip, dbinit >>

(***************************************************************************)
(* Document processor (document_processor.handler, process_document)       *)
(***************************************************************************)

\* The events the handler receives: object-created notifications for the
\* stored objects (key as stored or as the notification encodes it) and for
\* an object that is gone, health probes and a direct invocation.
IngestEvents ==
  { [ action |-> "none", body |-> "none", records |-> TRUE, key |-> k ] :
      k \in s3 \cup { EventKeyOf(o) : o \in s3 } \cup { GoneKey } }
  \cup { [ action |-> "healthcheck", body |-> "none", records |-> TRUE, key |-> GoneKey ],
         [ action |-> "none", body |-> "healthcheck", records |-> TRUE, key |-> GoneKey ],
         [ action |-> "none", body |-> "none", records |-> FALSE, key |-> << >> ] }

\* embed_query: the service's vector, or the zero vector when the call fails.
embed_query(ok, v) == IF ok THEN v ELSE ZeroVector

\* An exception leaves process_document and is caught by the handler: the
\* open transaction is lost and the response has status 500.
IngestRaise(tmp) ==
  ing' = [ing EXCEPT !.pc = "done", !.status = 500, !.message = "error",
                     !.txn = << >>, !.tmp = tmp]

\* The handler up to its call of process_document: health probes, the
\* decoding of the event key, the ids and the MIME type read from the key.
IngestReceive(event) ==
  /\ ing.pc \in { "idle", "done" }
  /\ IF event.action = "healthcheck" \/ event.body = "healthcheck" \/ ~event.records
     THEN /\ ing' = [IngIdle EXCEPT !.pc = "done", !.status = 200, !.message = "healthy",
                                    !.probe = (event.action = "healthcheck"
                                                 \/ event.body = "healthcheck"),
                                    !.records = event.records]
          /\ UNCHANGED nruns
     ELSE /\ nruns < MaxRuns
          /\ nruns' = nruns + 1
          /\ LET key == UnquotePlus(event.key)
                 ids == ParseKey(key)
             IN ing' = [IngIdle EXCEPT !.pc = "prepare", !.key = key,
                                       !.user_id = ids.user_id,
                                       !.document_id = ids.document_id,
                                       !.mime_type = IngestMimeType(ids.file_name),
                                       !.run = nruns + 1, !.records = TRUE]
  /\ UNCHANGED << s3, documents, chunks, metadata, up, search, uploads, searches, res, ev, qh, key_trip, dbinit >>

\* Mutant of IngestPrepare: the store connection is opened before the key is
\* resolved.
IngestPrepare_ConnectFirst(storeUp, fail, n) ==
  /\ ing.pc = "prepare"
  /\ LET r == get_s3_object_with_various_encoding(
                s3, IF storeUp THEN {} ELSE s3, storeUp, ing.key)
     IN IF ~r.found
        THEN ing' = [ing EXCEPT !.pc = "done", !.status = 500, !.message = "error", !.conn = "open"]
        ELSE IF fail # "none"
        THEN ing' = [ing EXCEPT !.pc = "done", !.status = 500, !.message = "error", !.key = r.key,
                                !.found = TRUE, !.conn = "open",
                                !.tmp = IF fail = "download" THEN "exists" ELSE "deleted"]
        ELSE ing' = [ing EXCEPT !.pc = "document", !.key = r.key, !.found = TRUE,
                                !.tmp = "exists", !.n = n, !.conn = "open"]
  /\ UNCHANGED << s3, documents, chunks, metadata, up, nruns, search, uploads, searches, res, ev, qh, key_trip, dbinit >>

\* process_document up to the cursor: the key resolver, the temporary file
\* and the download, loader.load() and chunk_documents (n chunks), the
\* credentials and the connection.  storeUp: whether the object store
\* answers; fail: the first later call that raises, if any.  A failed
\* download raises before the try block, so the temporary file stays.
IngestPrepare(storeUp, fail, n) ==
  /\ ing.pc = "prepare"
  /\ LET r == get_s3_object_with_various_encoding(
                s3, IF storeUp THEN {} ELSE s3, storeUp, ing.key)
     IN IF ~r.found
        THEN ing' = [ing EXCEPT !.pc = "done", !.status = 500, !.message = "error"]
        ELSE IF fail = "download"
        THEN ing' = [ing EXCEPT !.pc = "done", !.status = 500, !.message = "error", !.key = r.key,
                                !.found = TRUE, !.tmp = "exists"]
        ELSE IF fail \in { "load", "connect" }
        THEN ing' = [ing EXCEPT !.pc = "done", !.status = 500, !.message = "error", !.key = r.key,
                                !.found = TRUE, !.tmp = "deleted",
                                !.n = IF fail = "connect" THEN n ELSE 0]
        ELSE ing' = [ing EXCEPT !.pc = "document", !.key = r.key, !.found = TRUE,
                                !.tmp = "exists", !.n = n, !.conn = "open"]
  /\ UNCHANGED << s3, documents, chunks, metadata, up, nruns, search, uploads, searches, res, ev, qh, key_trip, dbinit >>

\* INSERT INTO documents ... 'processed', then conn.commit().
IngestStoreDocument(ok) ==
  /\ ing.pc = "document"
  /\ IF ok
     THEN /\ documents' = Append(documents,
                [ document_id |-> ing.document_id, user_id |-> ing.user_id,
                  file_name |-> FileNameOf(ing.key), mime_type |-> ing.mime_type,
                  status |-> "processed", key |-> ing.key, by |-> ing.run ])
          /\ ing' = [ing EXCEPT !.pc = IF ing.n = 0 THEN "commit" ELSE "embed"]
     ELSE documents' = documents /\ IngestRaise("deleted")
  /\ UNCHANGED << s3, chunks, metadata, up, nruns, search, uploads, searches, res, ev, qh, key_trip, dbinit >>

\* Mutant of IngestEmbed: every chunk of a run gets the same chunk id.
IngestEmbed_SameId(ok, v) ==
  /\ ing.pc = "embed"
  /\ ing' = [ing EXCEPT !.pc = "insert",
                        !.chunk_ids = Append(@, 10 * ing.run + 1),
                        !.embedding = embed_query(ok, v),
                        !.embedFailed = @ \/ ~ok,
                        !.embeds = @ + 1]
  /\ UNCHANGED << s3, documents, chunks, metadata, up, nruns, search, uploads, searches, res, ev, qh, key_trip, dbinit >>

\* The head of the loop body: a fresh chunk id, then embed_query on the chunk.
IngestEmbed(ok, v) ==
  /\ ing.pc = "embed"
  /\ ing' = [ing EXCEPT !.pc = "insert",
                        !.chunk_ids = Append(@, 10 * ing.run + ing.i + 1),
                        !.embedding = embed_query(ok, v),
                        !.embedFailed = @ \/ ~ok,
                        !.embeds = @ + 1]
  /\ UNCHANGED << s3, documents, chunks, metadata, up, nruns, search, uploads, searches, res, ev, qh, key_trip, dbinit >>

\* Mutant of IngestInsertChunk: every INSERT is committed at once.
IngestInsertChunk_Autocommit(ok) ==
  /\ ing.pc = "insert"
  /\ IF ok
     THEN /\ ing' = [ing EXCEPT !.pc = IF ing.i + 1 < ing.n THEN "embed" ELSE "commit",
                                !.i = ing.i + 1,
                                !.inserts = @ + 1,
                                !.embedding = ZeroVector]
          /\ chunks' = Append(chunks,
                                [ chunk_id |-> ing.chunk_ids[Len(ing.chunk_ids)],
                                  document_id |-> ing.document_id,
                                  user_id |-> ing.user_id,
                                  content |-> ing.i + 1,
                                  metadata |-> [source |-> ing.key, page |-> 0],
                                  embedding |-> ing.embedding,
                                  run |-> ing.run ])
     ELSE IngestRaise("deleted") /\ chunks' = chunks
  /\ UNCHANGED << s3, documents, metadata, up, nruns, search, uploads, searches, res, ev, qh, key_trip, dbinit >>

\* INSERT INTO chunks for the current chunk, inside the open transaction.
IngestInsertChunk(ok) ==
  /\ ing.pc = "insert"
  /\ IF ok
     THEN ing' = [ing EXCEPT !.pc = IF ing.i + 1 < ing.n THEN "embed" ELSE "commit",
                             !.i = ing.i + 1,
                             !.inserts = @ + 1,
                             !.embedding = ZeroVector,
                             !.txn = Append(@,
                                [ chunk_id |-> ing.chunk_ids[Len(ing.chunk_ids)],
                                  document_id |-> ing.document_id,
                                  user_id |-> ing.user_id,
                                  content |-> ing.i + 1,
                                  metadata |-> [source |-> ing.key, page |-> 0],
                                  embedding |-> ing.embedding,
                                  run |-> ing.run ])]
     ELSE IngestRaise("deleted")
  /\ UNCHANGED << s3, documents, chunks, metadata, up, nruns, search, uploads, searches, res, ev, qh, key_trip, dbinit >>

\* Mutant of IngestCommitChunks: a failed commit is swallowed and the handler
\* goes on to the metadata item.
IngestCommitChunks_Swallow(ok) ==
  /\ ing.pc = "commit"
  /\ IF ok
     THEN /\ chunks' = chunks \o ing.txn
          /\ ing' = [ing EXCEPT !.pc = "metadata", !.txn = << >>, !.tmp = "deleted",
                                !.returned = TRUE, !.num_chunks = ing.n]
     ELSE /\ chunks' = chunks
          /\ ing' = [ing EXCEPT !.pc = "metadata", !.txn = << >>, !.tmp = "deleted"]
  /\ UNCHANGED << s3, documents, metadata, up, nruns, search, uploads, searches, res, ev, qh, key_trip, dbinit >>

\* The final conn.commit() and the return of (len(chunks), chunk_ids); the
\* finally clause removes the temporary file.
IngestCommitChunks(ok) ==
  /\ ing.pc = "commit"
  /\ IF ok
     THEN /\ chunks' = chunks \o ing.txn
          /\ ing' = [ing EXCEPT !.pc = "metadata", !.txn = << >>, !.tmp = "deleted",
                                !.returned = TRUE, !.num_chunks = ing.n]
     ELSE chunks' = chunks /\ IngestRaise("deleted")
  /\ UNCHANGED << s3, documents, metadata, up, nruns, search, uploads, searches, res, ev, qh, key_trip, dbinit >>

\* The handler's put_item with status 'processed', then the 200 response.
IngestPutMetadata(ok) ==
  /\ ing.pc = "metadata"
  /\ IF ok
     THEN /\ metadata' = PutItem(metadata,
                [ document_id |-> ing.document_id, user_id |-> ing.user_id,
                  status |-> "processed", by |-> ing.run ])
          /\ ing' = [ing EXCEPT !.pc = "done", !.status = 200, !.message = "processed"]
     ELSE /\ metadata' = metadata
          /\ ing' = [ing EXCEPT !.pc = "done", !.status = 500, !.message = "error"]
  /\ UNCHANGED << s3, documents, chunks, up, nruns, search, uploads, searches, res, ev, qh, key_trip, dbinit >>

(***************************************************************************)
(* Query side: one call of similarity_search                               *)
(***************************************************************************)

\* The ways a call of similarity_search ends.  "nocred": the credentials
\* cannot be read; "noconn": the connection fails; "nocursor": conn.cursor()
\* raises; "failed": the statement or the reading of its rows fails.
SearchOutcomes == { "ok", "nocred", "noconn", "nocursor", "failed" }

\* The connection when similarity_search has ended.  Credentials and
\* connection are obtained before the try: when they fail nothing was
\* opened.  The finally block closes the cursor, then the connection; when
\* conn.cursor() raised, cursor is unbound, cursor.close() raises and
\* conn.close() is not reached.
SearchConn(outcome) ==
  IF outcome \in { "nocred", "noconn" } THEN "none"
  ELSE IF outcome = "nocursor" THEN "open"
  ELSE "closed"

\* similarity_search(query_embedding, user_id) called on its own; every
\* outcome but "ok" raises.
SimilaritySearch(user_id, query_embedding, outcome) ==
  /\ searches < MaxSearch
  /\ searches' = searches + 1
  /\ search' = [ called |-> TRUE, user_id |-> user_id, query_embedding |-> query_embedding,
                 raised |-> outcome # "ok",
                 conn |-> SearchConn(outcome),
                 results |-> IF outcome = "ok"
                             THEN similarity_search(documents, chunks, query_embedding,
                                                    user_id, DefaultLimit)
                             ELSE << >> ]
  /\ UNCHANGED << s3, documents, chunks, metadata, up, ing, nruns, uploads, res, ev, qh, key_trip, dbinit >>

Next ==
  \/ \E req \in UploadRequests, putOk \in BOOLEAN : UploadReceive(req, putOk)
  \/ \E outcome \in { "ok", "noconn", "failed" } : UploadStoreDocument(outcome)
  \/ \E ok \in BOOLEAN : UploadPutMetadata(ok)
  \/ \E event \in IngestEvents : IngestReceive(event)
  \/ \E storeUp \in BOOLEAN, fail \in { "none", "download", "load", "connect" },
        n \in 0..MaxChunks : IngestPrepare(storeUp, fail, n)
  \/ \E ok \in BOOLEAN : IngestStoreDocument(ok)
  \/ \E ok \in BOOLEAN : IngestEmbed(ok, EmbeddingOf(ing.i + 1))
  \/ \E ok \in BOOLEAN : IngestInsertChunk(ok)
  \/ \E ok \in BOOLEAN : IngestCommitChunks(ok)
  \/ \E ok \in BOOLEAN : IngestPutMetadata(ok)

Spec == Init /\ [][Next]_vars

\* The pipelines together with a tenant's search: the search reads whatever
\* the store holds when it is called.
NextQuery ==
  \/ searches = 0 /\ Next
  \/ \E u \in { U1, SystemUser }, q \in { EmbeddingOf(1), ZeroVector },
        outcome \in SearchOutcomes :
       SimilaritySearch(u, q, outcome)

SpecQuery == Init /\ [][NextQuery]_vars

(***************************************************************************)
(* The key resolver on its own: every bucket and request of a small domain *)
(***************************************************************************)

MaxObjects == 2    \* objects in the bucket of a resolver call

\* Stored keys: with and without a parent prefix, with literal spaces,
\* with a literal '+', with a literal "%20".
ResolverStoredKeys ==
  { << "d", "/", "a", " ", "b" >>,
    << "a", " ", "b" >>,
    << "d", "/", "a", " ", "b", "+", "c" >>,
    << "a", " ", "b", "+", "c" >>,
    << "d", "/", "a", "b" >>,
    << "d", "/", "a", "+", "b" >>,
    << "a", "+", "b" >>,
    << "d", "/", "a", "%", "2", "0", "b" >> }

\* The request that writes the spaces of a stored key as %20.
PercentVariant(key) == Quote(key, {"/"})

\* The request that writes the spaces of a stored key as '+'.
PlusVariant(key) == ReplaceChar(Quote(key, {"/", " "}), " ", "+")

\* Requests: each stored key as it is, in its two encoded variants, fully
\* quoted, with the spaces replaced by a bare '+', and a key nothing matches.
ResolverRequests ==
  UNION { { k, PercentVariant(k), PlusVariant(k), QuotePlus(k), ReplaceChar(k, " ", "+") } :
            k \in ResolverStoredKeys }
    \cup { << "x", "/", "n", "o", "n", "e" >> }

ResolverInit ==
  /\ s3 = {} /\ documents = << >> /\ chunks = << >> /\ metadata = {}
  /\ up = UpIdle /\ ing = IngIdle /\ nruns = 0 /\ search = SearchIdle
  /\ uploads = 0 /\ searches = 0 /\ ev = EvIdle /\ qh = QhIdle
  /\ key_trip = KeyIdle /\ dbinit = DbIdle
  /\ \E objects \in { o \in SUBSET ResolverStoredKeys : Cardinality(o) <= MaxObjects } :
       \E denied \in { {} } \cup { { k } : k \in objects } :
         \E listOk \in BOOLEAN, key \in ResolverRequests :
           res = [ResIdle EXCEPT !.objects = objects, !.denied = denied,
                                 !.listOk = listOk, !.key = key]

\* One call of the resolver.
ResolveCall ==
  /\ ~res.done
  /\ res' = [res EXCEPT !.done = TRUE,
                        !.out = get_s3_object_with_various_encoding(
                                   res.objects, res.denied, res.listOk, res.key)]
  /\ UNCHANGED << s3, documents, chunks, metadata, up, ing, nruns, search, uploads, searches, ev, qh, key_trip, dbinit >>

NextResolver == ResolveCall

SpecResolver == ResolverInit /\ [][NextResolver]_vars

(***************************************************************************)
(* Properties of the key resolver                                          *)
(***************************************************************************)

RECURSIVE Dedupe(_)
\* A sequence without its repeated entries, first occurrences kept.
Dedupe(seq) ==
  IF seq = << >> THEN << >>
  ELSE LET init == Dedupe(SubSeq(seq, 1, Len(seq) - 1))
           x == seq[Len(seq)]
       IN IF InSeq(x, init) THEN init ELSE Append(init, x)

IsPrefixOf(p, q) == Len(p) <= Len(q) /\ SubSeq(q, 1, Len(p)) = p

\* C6: the resolver probes the literal key, the unquote_plus-decoded key, the
\* plus-encoded key and the percent-encoded key in that order, each only
\* when distinct from the earlier candidates, and the prefix listing only
\* after all of them failed; it returns the first key whose existence check
\* succeeds and probes nothing after that success.
ProbesInFixedOrder ==
  res.done =>
    LET decoded == UnquotePlus(res.key)
        expected == Dedupe(<< res.key, decoded, QuotePlus(decoded), Quote(decoded, {"/"}) >>)
        probes == res.out.probes
        headable == res.objects \ res.denied
        n == Len(probes)
    IN /\ res.out.tried = expected
       /\ IF res.out.listCalled
          THEN /\ IsPrefixOf(expected, probes)
               /\ \A i \in 1..Len(expected) : expected[i] \notin headable
          ELSE IsPrefixOf(probes, expected)
       /\ \A i \in 1..(n - 1) : probes[i] \notin headable
       /\ res.out.found <=> (n > 0 /\ probes[n] \in headable)
       /\ res.out.found => res.out.key = probes[n]

\* C6 witness: the third candidate (the plus-encoded key) is the first hit,
\* after two failed probes and without a listing.
ProbesInFixedOrderWitness ==
  /\ res.done
  /\ res.out.found
  /\ ~res.out.listCalled
  /\ Len(res.out.probes) = 3
  /\ res.out.key = QuotePlus(UnquotePlus(res.key))

HasSpace(s) == \E i \in 1..Len(s) : s[i] = " "

\* C7: when the bucket holds one object whose filename has literal spaces
\* (and no other spelling of it), the request naming it with %20, with '+'
\* or with the spaces unescaped returns that stored key.
VariantsResolveToStoredKey ==
  res.done =>
    \A stored \in res.objects :
      ( /\ HasSpace(FileNameOf(stored))
        /\ res.denied = {}
        /\ res.objects \cap { stored, PercentVariant(stored), PlusVariant(stored) } = { stored }
        /\ res.key \in { stored, PercentVariant(stored), PlusVariant(stored) } )
      => (res.out.found /\ res.out.key = stored)

\* C7 witness: the request spells the spaces as %20, so it differs from the
\* stored key, and the stored key is returned.
VariantsResolveWitness ==
  /\ res.done
  /\ \E stored \in res.objects :
       /\ HasSpace(FileNameOf(stored))
       /\ res.objects = { stored }
       /\ res.key = PercentVariant(stored)
       /\ res.key # stored
       /\ res.out.key = stored

(***************************************************************************)
(* The evaluator on its own: every reply of the auxiliary model            *)
(***************************************************************************)

EvalInit ==
  /\ s3 = {} /\ documents = << >> /\ chunks = << >> /\ metadata = {}
  /\ up = UpIdle /\ ing = IngIdle /\ nruns = 0 /\ search = SearchIdle
  /\ uploads = 0 /\ searches = 0 /\ res = ResIdle
  /\ ev = EvIdle
  /\ qh = QhIdle
  /\ key_trip = KeyIdle /\ dbinit = DbIdle

\* evaluate_rag_response up to the first metric: the placeholder results
\* when ENABLE_EVALUATION is off, the fallback results when the evaluator
\* cannot be constructed, else evaluate_response starts.
EvalBegin(enabled, ground_truth, ctorOk) ==
  IF ~enabled
  THEN [EvIdle EXCEPT !.pc = "done", !.ground_truth = ground_truth, !.path = "disabled",
                      !.results = FixedResults(0, ground_truth)]
  ELSE IF ~ctorOk
  THEN [EvIdle EXCEPT !.pc = "done", !.ground_truth = ground_truth, !.path = "fallback",
                      !.results = FixedResults(Half, ground_truth)]
  ELSE [EvIdle EXCEPT !.pc = "answer_relevancy", !.ground_truth = ground_truth,
                      !.path = "evaluated"]

\* A call of evaluate_rag_response.
EvalStart(enabled, ground_truth, ctorOk) ==
  /\ ev.pc \in { "idle", "done" }
  /\ ev' = EvalBegin(enabled, ground_truth, ctorOk)
  /\ UNCHANGED << s3, documents, chunks, metadata, up, ing, nruns, search, uploads, searches, res, qh, key_trip, dbinit >>

\* Mutant of EvalMetric: the generation call is issued twice.
EvalMetric_Retry(metric, next, reply) ==
  /\ ev.pc = metric
  /\ ev' = [ev EXCEPT !.pc = next,
                      !.results = (metric :> EvaluateMetric(reply)) @@ @,
                      !.calls = @ + 2,
                      !.clamped = @ \/ OutOfRange(reply),
                      !.defaulted = @ \/ reply.kind # "text",
                      !.parsed = (metric :> HasNumber(reply)) @@ @]
  /\ UNCHANGED << s3, documents, chunks, metadata, up, ing, nruns, search, uploads, searches, res, qh, key_trip, dbinit >>

\* One metric of evaluate_response: its generation call and its rating.
EvalMetric(metric, next, reply) ==
  /\ ev.pc = metric
  /\ ev' = [ev EXCEPT !.pc = next,
                      !.results = (metric :> EvaluateMetric(reply)) @@ @,
                      !.calls = @ + 1,
                      !.clamped = @ \/ OutOfRange(reply),
                      !.defaulted = @ \/ reply.kind # "text",
                      !.parsed = (metric :> HasNumber(reply)) @@ @]
  /\ UNCHANGED << s3, documents, chunks, metadata, up, ing, nruns, search, uploads, searches, res, qh, key_trip, dbinit >>

EvalAnswerRelevancy(reply) == EvalMetric("answer_relevancy", "faithfulness", reply)

EvalFaithfulness(reply) ==
  EvalMetric("faithfulness", IF Truthy(ev.ground_truth) THEN "context_precision" ELSE "done", reply)

EvalContextPrecision(reply) == EvalMetric("context_precision", "done", reply)

NextEval ==
  \/ \E enabled \in BOOLEAN, ground_truth \in { "none", "empty", "text" }, ctorOk \in BOOLEAN :
       EvalStart(enabled, ground_truth, ctorOk)
  \/ \E reply \in Replies : EvalAnswerRelevancy(reply)
  \/ \E reply \in Replies : EvalFaithfulness(reply)
  \/ \E reply \in Replies : EvalContextPrecision(reply)

SpecEval == EvalInit /\ [][NextEval]_vars

(***************************************************************************)
(* Query handler (query_processor.handler)                                 *)
(***************************************************************************)

\* The length of the vector embed_query returns when the service fails.
EmbeddingDim == 768

\* event['body'] as the handler reads it.  kind "absent": no body; "empty":
\* the empty string; "invalid": a string json.loads rejects; "other": neither
\* a string nor a dict; all of these leave body = {}.  "nonobject": a string
\* that json.loads turns into a list, a string, a number or null.  "object":
\* a dict, or a string that parses to one, with its fields; query and
\* ground_truth may be absent, empty or a text, user_id absent (<< >>).
QueryBodies ==
  { [ kind |-> k, action |-> "none", query |-> "absent", user_id |-> << >>,
      ground_truth |-> "none", enable_evaluation |-> "absent" ] :
      k \in { "absent", "empty", "invalid", "other", "nonobject" } }
  \cup
  { [ kind |-> "object", action |-> a, query |-> q, user_id |-> u,
      ground_truth |-> g, enable_evaluation |-> e ] :
      a \in { "none", "healthcheck" }, q \in { "absent", "empty", "text" },
      u \in { << >>, U1 }, g \in { "none", "empty", "text" },
      e \in { "absent", "true", "false" } }

QueryEvents == { [ action |-> a, body |-> b ] : a \in { "none", "healthcheck" }, b \in QueryBodies }

\* body.get('enable_evaluation', ENABLE_EVALUATION)
EnableEvaluation(body, config) ==
  IF body.enable_evaluation = "absent" THEN config ELSE body.enable_evaluation = "true"

\* Mutant of QueryReceive: the query is read before the health probe, so a
\* probe that carries a query is answered as a query.
QueryReceive_QueryFirst(event, config) ==
  /\ qh.pc \in { "idle", "done" }
  /\ qh.n < MaxQueries
  /\ LET b == event.body
         base == [QhIdle EXCEPT !.n = qh.n + 1,
                                !.health = (event.action = "healthcheck"
                                              \/ b.action = "healthcheck"),
                                !.body = b.kind, !.query = b.query,
                                !.requested = b.enable_evaluation, !.config = config]
     IN qh' = IF b.query = "text"
              THEN [base EXCEPT !.pc = "embed",
                                !.user_id = IF b.user_id = << >> THEN SystemUser ELSE b.user_id,
                                !.ground_truth = b.ground_truth,
                                !.enable_evaluation = EnableEvaluation(b, config)]
              ELSE IF event.action = "healthcheck" \/ b.action = "healthcheck"
              THEN [base EXCEPT !.pc = "done", !.status = 200, !.message = "healthy"]
              ELSE [base EXCEPT !.pc = "done", !.status = 400, !.message = "required"]
  /\ ev' = EvIdle
  /\ search' = SearchIdle
  /\ UNCHANGED << s3, documents, chunks, metadata, up, ing, nruns, uploads, searches, res, key_trip, dbinit >>

\* The handler up to embed_query: the body, the health probe (top level
\* first; body.get raises on a body that is not a dict), the request fields
\* and the check of the query.  config: the ENABLE_EVALUATION setting.
QueryReceive(event, config) ==
  /\ qh.pc \in { "idle", "done" }
  /\ qh.n < MaxQueries
  /\ LET b == event.body
         base == [QhIdle EXCEPT !.n = qh.n + 1,
                                !.health = (event.action = "healthcheck"
                                              \/ b.action = "healthcheck"),
                                !.body = b.kind, !.query = b.query,
                                !.requested = b.enable_evaluation, !.config = config]
     IN qh' = IF event.action = "healthcheck"
              THEN [base EXCEPT !.pc = "done", !.status = 200, !.message = "healthy"]
              ELSE IF b.kind = "nonobject"
              THEN [base EXCEPT !.pc = "done", !.status = 500, !.message = "error"]
              ELSE IF b.action = "healthcheck"
              THEN [base EXCEPT !.pc = "done", !.status = 200, !.message = "healthy"]
              ELSE IF b.query # "text"
              THEN [base EXCEPT !.pc = "done", !.status = 400, !.message = "required"]
              ELSE [base EXCEPT !.pc = "embed",
                                !.user_id = IF b.user_id = << >> THEN SystemUser ELSE b.user_id,
                                !.ground_truth = b.ground_truth,
                                !.enable_evaluation = EnableEvaluation(b, config)]
  /\ ev' = EvIdle
  /\ search' = SearchIdle
  /\ UNCHANGED << s3, documents, chunks, metadata, up, ing, nruns, uploads, searches, res, key_trip, dbinit >>

\* Mutant of QueryEmbed: a failure of the embedding service is raised to the
\* handler.
QueryEmbed_Raise(ok) ==
  /\ qh.pc = "embed"
  /\ qh' = IF ok
           THEN [qh EXCEPT !.pc = "search", !.query_embedding = EmbeddingOf(1),
                           !.dim = EmbeddingDim, !.calls.embed = @ + 1]
           ELSE [qh EXCEPT !.pc = "done", !.status = 500, !.message = "error",
                           !.embedFailed = TRUE, !.calls.embed = @ + 1]
  /\ UNCHANGED << s3, documents, chunks, metadata, up, ing, nruns, search, uploads, searches, res, ev, key_trip, dbinit >>

\* query_embedding = embed_query(query): the service's vector, or a zero
\* vector of EmbeddingDim entries when the call fails.
QueryEmbed(ok) ==
  /\ qh.pc = "embed"
  /\ qh' = [qh EXCEPT !.pc = "search",
                      !.query_embedding = embed_query(ok, EmbeddingOf(1)),
                      !.dim = EmbeddingDim, !.embedFailed = ~ok,
                      !.calls.embed = @ + 1]
  /\ UNCHANGED << s3, documents, chunks, metadata, up, ing, nruns, search, uploads, searches, res, ev, key_trip, dbinit >>

\* Mutant of QuerySearch: a failed search yields an empty result list.
QuerySearch_Fallback(outcome) ==
  /\ qh.pc = "search"
  /\ search' = [ called |-> TRUE, user_id |-> qh.user_id,
                 query_embedding |-> qh.query_embedding, raised |-> outcome # "ok",
                 conn |-> SearchConn(outcome),
                 results |-> IF outcome = "ok"
                             THEN similarity_search(documents, chunks, qh.query_embedding,
                                                    qh.user_id, DefaultLimit)
                             ELSE << >> ]
  /\ qh' = [qh EXCEPT !.pc = "generate", !.searchFailed = outcome # "ok",
                      !.calls.connect = @ + (IF outcome = "nocred" THEN 0 ELSE 1)]
  /\ UNCHANGED << s3, documents, chunks, metadata, up, ing, nruns, uploads, searches, res, ev, key_trip, dbinit >>

\* relevant_chunks = similarity_search(query_embedding, user_id).  outcome
\* Every outcome of SearchOutcomes but "ok" raises to the handler, which
\* answers 500.
QuerySearch(outcome) ==
  /\ qh.pc = "search"
  /\ search' = [ called |-> TRUE, user_id |-> qh.user_id,
                 query_embedding |-> qh.query_embedding, raised |-> outcome # "ok",
                 conn |-> SearchConn(outcome),
                 results |-> IF outcome = "ok"
                             THEN similarity_search(documents, chunks, qh.query_embedding,
                                                    qh.user_id, DefaultLimit)
                             ELSE << >> ]
  /\ qh' = IF outcome = "ok"
           THEN [qh EXCEPT !.pc = "generate", !.calls.connect = @ + 1]
           ELSE [qh EXCEPT !.pc = "done", !.status = 500, !.message = "error",
                           !.searchFailed = TRUE,
                           !.calls.connect = @ + (IF outcome = "nocred" THEN 0 ELSE 1)]
  /\ UNCHANGED << s3, documents, chunks, metadata, up, ing, nruns, uploads, searches, res, ev, key_trip, dbinit >>

\* response = generate_response(...): the model's text, or the apology when
\* the generation call fails.
QueryGenerate(ok) ==
  /\ qh.pc = "generate"
  /\ qh' = [qh EXCEPT !.pc = "evaluate",
                      !.response = IF ok THEN "answer" ELSE "apology",
                      !.calls.generate = @ + 1]
  /\ UNCHANGED << s3, documents, chunks, metadata, up, ing, nruns, search, uploads, searches, res, ev, key_trip, dbinit >>

\* Mutant of QueryEvaluate: the response is evaluated whatever the request
\* says.
QueryEvaluate_Always(ctorOk) ==
  /\ qh.pc = "evaluate"
  /\ ev' = EvalBegin(qh.config, qh.ground_truth, ctorOk)
  /\ qh' = [qh EXCEPT !.pc = "evaluating", !.evaluated = TRUE]
  /\ UNCHANGED << s3, documents, chunks, metadata, up, ing, nruns, search, uploads, searches, res, key_trip, dbinit >>

\* if enable_evaluation: evaluate_rag_response is called; else the response
\* is returned with an empty evaluation.
QueryEvaluate(ctorOk) ==
  /\ qh.pc = "evaluate"
  /\ IF qh.enable_evaluation
     THEN /\ ev' = EvalBegin(qh.config, qh.ground_truth, ctorOk)
          /\ qh' = [qh EXCEPT !.pc = "evaluating", !.evaluated = TRUE]
     ELSE /\ ev' = ev
          /\ qh' = [qh EXCEPT !.pc = "done", !.status = 200, !.message = "answer",
                              !.evaluation = << >>]
  /\ UNCHANGED << s3, documents, chunks, metadata, up, ing, nruns, search, uploads, searches, res, key_trip, dbinit >>

\* The 200 response once evaluate_rag_response has returned.
QueryRespond ==
  /\ qh.pc = "evaluating"
  /\ ev.pc = "done"
  /\ qh' = [qh EXCEPT !.pc = "done", !.status = 200, !.message = "answer",
                      !.evaluation = ev.results]
  /\ UNCHANGED << s3, documents, chunks, metadata, up, ing, nruns, search, uploads, searches, res, ev, key_trip, dbinit >>

\* The health probes among the events of the document processor.
ProbeEvents == { e \in IngestEvents : e.action = "healthcheck" \/ e.body = "healthcheck" }

\* The replies the handler's evaluation draws from: a failed call, a reply
\* without text, every text of at most one character.
ShortReplies == { r \in Replies : Len(r.text) <= 1 }

\* The query handler with its evaluator, next to the health probes of the
\* document processor.
NextHandler ==
  \/ \E event \in QueryEvents, config \in BOOLEAN : QueryReceive(event, config)
  \/ \E ok \in BOOLEAN : QueryEmbed(ok)
  \/ \E outcome \in SearchOutcomes : QuerySearch(outcome)
  \/ \E ok \in BOOLEAN : QueryGenerate(ok)
  \/ \E ctorOk \in BOOLEAN : QueryEvaluate(ctorOk)
  \/ QueryRespond
  \/ \E reply \in ShortReplies : qh.pc = "evaluating" /\ EvalAnswerRelevancy(reply)
  \/ \E reply \in ShortReplies : qh.pc = "evaluating" /\ EvalFaithfulness(reply)
  \/ \E reply \in ShortReplies : qh.pc = "evaluating" /\ EvalContextPrecision(reply)
  \/ \E event \in ProbeEvents : IngestReceive(event)

SpecHandler == Init /\ [][NextHandler]_vars

(***************************************************************************)
(* Properties of the evaluator                                             *)
(***************************************************************************)

\* C10: every metric value the evaluator returns lies in [0, 1], whatever the
\* auxiliary model replies and whether or not its calls fail.
MetricsInUnitInterval ==
  \A m \in DOMAIN ev.results : ev.results[m] >= 0 /\ ev.results[m] <= One

\* C10 witness: an evaluation has finished in which one reply rated above 1
\* and another call failed.
MetricsInUnitIntervalWitness ==
  /\ ev.pc = "done"
  /\ ev.calls >= 2
  /\ ev.clamped
  /\ ev.defaulted

\* The metrics evaluate_response computes for a reference answer.
MetricsFor(ground_truth) ==
  IF Truthy(ground_truth)
  THEN { "answer_relevancy", "faithfulness", "context_precision" }
  ELSE { "answer_relevancy", "faithfulness" }

\* C11: the result of a finished evaluation holds the key context_precision
\* if and only if a reference answer was supplied (one that is not empty),
\* whether the metrics were evaluated, evaluation is disabled by
\* configuration or the fallback results are returned.
PrecisionIffGroundTruth ==
  ev.pc = "done" =>
    ( "context_precision" \in DOMAIN ev.results <=> Truthy(ev.ground_truth) )

\* C11 witness: evaluation is disabled by configuration, a reference answer
\* was supplied and the placeholder results hold context_precision.
PrecisionIffGroundTruthWitness ==
  /\ ev.pc = "done"
  /\ ev.path = "disabled"
  /\ Truthy(ev.ground_truth)
  /\ "context_precision" \in DOMAIN ev.results

\* C12: a metric whose call failed or whose reply holds no number is exactly
\* 0.5; the evaluation goes on to the remaining metrics and ends with a
\* result for each of them, and the fallback results are 0.5 as well.
DefaultOnNoNumber ==
  /\ \A m \in DOMAIN ev.parsed : ~ev.parsed[m] => ev.results[m] = Half
  /\ (ev.pc = "done" /\ ev.path = "evaluated") =>
        DOMAIN ev.results = MetricsFor(ev.ground_truth)
  /\ (ev.pc = "done" /\ ev.path = "fallback") =>
        \A m \in DOMAIN ev.results : ev.results[m] = Half

\* C12 witness: the first call failed, the second reply held a number other
\* than 0.5, and the evaluation has ended with both metrics.
DefaultOnNoNumberWitness ==
  /\ ev.pc = "done"
  /\ ev.path = "evaluated"
  /\ ~ev.parsed["answer_relevancy"]
  /\ ev.parsed["faithfulness"]
  /\ ev.results["faithfulness"] # Half

\* C13 as stated: whenever evaluate_rag_response has been called, the number
\* of generation calls issued equals the number of metrics in its result.
CallsEqualMetrics ==
  ev.pc = "done" => ev.calls = Cardinality(DOMAIN ev.results)

\* C13 amended: when evaluation is enabled by configuration and the
\* evaluator was constructed, answer_relevancy and faithfulness (and
\* context_precision for a reference answer) are each computed by one
\* generation call; the placeholder and the fallback results are returned
\* without any call.
CallsEqualMetricsWhenEvaluated ==
  /\ (ev.pc = "done" /\ ev.path = "evaluated") =>
        /\ DOMAIN ev.results = MetricsFor(ev.ground_truth)
        /\ ev.calls = Cardinality(DOMAIN ev.results)
  /\ ev.path = "evaluated" => ev.calls = Cardinality(DOMAIN ev.results)
  /\ ev.path \in { "disabled", "fallback" } =>
        ev.calls = 0 /\ DOMAIN ev.results = MetricsFor(ev.ground_truth)

\* C13 witness: three metrics have been computed by three calls.
CallsEqualMetricsWitness ==
  /\ ev.pc = "done"
  /\ ev.path = "evaluated"
  /\ ev.calls = 3
  /\ Cardinality(DOMAIN ev.results) = 3

(***************************************************************************)
(* Properties of the ingestion pipeline                                    *)
(***************************************************************************)

\* The committed chunk rows written by run r.
ChunkRowsOf(r) == { i \in 1..Len(chunks) : chunks[i].run = r }

\* The committed Document rows written by run r.
DocumentRowsOf(r) == { i \in 1..Len(documents) : documents[i].by = r }

\* An ingestion run is in progress or has just ended.
InRun == ing.run > 0

\* C1: a Document row with status processed is committed for the run only if
\* every chunk row of the run has been committed already.
ProcessedOnlyAfterAllChunks ==
  InRun =>
    ( (\E i \in DocumentRowsOf(ing.run) : documents[i].status = "processed")
        => Cardinality(ChunkRowsOf(ing.run)) = ing.n )

\* C2: when process_document has failed, the ended run has left no Document
\* row in the store.
FailedRunLeavesNoDocument ==
  (InRun /\ ing.pc = "done" /\ ~ing.returned) => DocumentRowsOf(ing.run) = {}

\* C4: no chunk is stored with the substitute zero vector of a failed
\* embedding call: a run whose embedding call failed commits no chunk row.
NoSubstituteVectorStored ==
  /\ \A i \in 1..Len(chunks) : chunks[i].embedding # ZeroVector
  /\ (InRun /\ ing.embedFailed) => ~ing.returned

\* C5: when the resolver finds the object under no candidate key and not in
\* the listing, process_document fails before a store connection is opened,
\* and the handler has written no Document row, no chunk row and no metadata
\* item for the event; it answers with status 500.
NotFoundWritesNothing ==
  (InRun /\ ing.pc = "done" /\ ~ing.found) =>
    /\ ing.conn = "none"
    /\ ing.status = 500
    /\ DocumentRowsOf(ing.run) = {}
    /\ ChunkRowsOf(ing.run) = {}
    /\ \A item \in metadata : item.by # ing.run

\* C5 witness: the event named an object that was never stored and the
\* handler has answered.
NotFoundWritesNothingWitness ==
  /\ InRun
  /\ ing.pc = "done"
  /\ ~ing.found
  /\ ing.key = GoneKey
  /\ ing.status = 500

\* C8: a document id created by an upload has one Document row: after the
\* upload and its ingestion the store holds no second row with that id.
OneDocumentRowPerUpload ==
  \A i, j \in 1..Len(documents) :
    (documents[i].by = -1 /\ documents[i].document_id = documents[j].document_id) => i = j

\* C9: the metadata table holds a processed item written by a run only after
\* process_document has returned for that run with all chunk rows committed;
\* when process_document has failed the run writes no metadata item and the
\* handler answers with status 500.
MetadataProcessedOnlyAfterReturn ==
  InRun =>
    /\ \A item \in metadata :
         item.by = ing.run =>
           /\ item.status = "processed"
           /\ ing.returned
           /\ Cardinality(ChunkRowsOf(ing.run)) = ing.n
    /\ (ing.pc = "done" /\ ~ing.returned) =>
         /\ ing.status = 500
         /\ \A item \in metadata : item.by # ing.run

\* C9 witness: a run with chunks has returned and its processed item is in
\* the metadata table.
MetadataProcessedWitness ==
  /\ InRun
  /\ ing.pc = "done"
  /\ ing.status = 200
  /\ ing.n >= 1
  /\ \E item \in metadata : item.by = ing.run /\ item.status = "processed"

(***************************************************************************)
(* Properties of the vector search                                         *)
(***************************************************************************)

\* C3: similarity_search for a tenant returns only rows whose chunk user_id
\* is that tenant: no chunk stored for another tenant appears in the result.
SearchReturnsOnlyTenantRows ==
  search.called =>
    \A i \in 1..Len(search.results) : search.results[i].user_id = search.user_id

\* C3 witness: the store holds chunks of two tenants and the search of one of
\* them has returned rows.
SearchReturnsOnlyTenantRowsWitness ==
  /\ search.called
  /\ Len(search.results) >= 1
  /\ \E i \in 1..Len(chunks) : chunks[i].user_id # search.user_id
  /\ \E i \in 1..Len(chunks) : chunks[i].user_id = search.user_id

\* The comparison x >= y of two floats: false when either is NaN.
FloatGeq(x, y) == x # NaN /\ y # NaN /\ x >= y

\* C15: every similarity_score similarity_search returns lies in [0, 1].
ScoresInUnitInterval ==
  \A i \in 1..Len(search.results) :
    /\ FloatGeq(search.results[i].similarity_score, 0)
    /\ FloatGeq(1, search.results[i].similarity_score)

\* C16: the results of similarity_search are ordered by non-increasing
\* similarity_score: score[i] >= score[i+1] for consecutive results.
ScoresNonIncreasing ==
  \A i \in 1..(Len(search.results) - 1) :
    FloatGeq(search.results[i].similarity_score, search.results[i + 1].similarity_score)

(***************************************************************************)
(* Properties of the query handler                                         *)
(***************************************************************************)

\* The handler has called none of the embedding service, the store, the
\* generator and the evaluator.
NoPipelineCall ==
  /\ qh.calls.embed = 0
  /\ qh.calls.connect = 0
  /\ ~search.called
  /\ qh.calls.generate = 0
  /\ ~qh.evaluated
  /\ ev.calls = 0

\* C14: when the request sets enable_evaluation to false, no scoring call is
\* issued and the evaluation field of the answer is empty.
EvaluationOffMeansNoScoring ==
  qh.requested = "false" =>
    /\ ~qh.evaluated
    /\ ev.calls = 0
    /\ qh.message = "answer" => qh.evaluation = << >>

\* C14 witness: evaluation is on by configuration, the request turns it off
\* and the answer has been returned after the generation call.
EvaluationOffWitness ==
  /\ qh.requested = "false"
  /\ qh.config
  /\ qh.pc = "done"
  /\ qh.status = 200
  /\ qh.message = "answer"
  /\ qh.calls.generate = 1

\* C17: a request that is no health probe and has no non-empty query is
\* answered 400 and causes no embedding, store, generation or evaluation
\* call.
MissingQueryRejected ==
  (qh.pc = "done" /\ ~qh.health /\ qh.query # "text") =>
    qh.status = 400 /\ NoPipelineCall

\* C18: when the embedding service fails, embed_query returns the zero
\* vector of 768 entries and the handler goes on: the search is called with
\* it and, unless the search itself fails, the answer is generated and
\* returned with status 200.
EmbedFailureContinues ==
  qh.embedFailed =>
    /\ qh.query_embedding = ZeroVector
    /\ qh.dim = 768
    /\ qh.pc = "done" => search.called /\ search.query_embedding = ZeroVector
    /\ (qh.pc = "done" /\ ~qh.searchFailed) =>
         qh.status = 200 /\ qh.message = "answer" /\ qh.calls.generate = 1

\* C18 witness: the embedding call failed and the answer was returned with
\* the rows the search found for the zero vector.
EmbedFailureContinuesWitness ==
  /\ qh.embedFailed
  /\ qh.pc = "done"
  /\ qh.status = 200
  /\ Len(search.results) >= 1
  /\ qh.calls.generate = 1

\* C19: when the credentials, the connection, the cursor or the statement of
\* the search fails, the handler answers 500 with an error message and has called
\* neither the generator nor the evaluator.
SearchFailurePropagates ==
  qh.searchFailed =>
    /\ qh.pc = "done"
    /\ qh.status = 500
    /\ qh.message = "error"
    /\ search.raised
    /\ qh.calls.generate = 0
    /\ ~qh.evaluated
    /\ ev.calls = 0

\* C19 witness: the statement failed on an open connection, after a
\* successful embedding call, for a request that asked for evaluation.
SearchFailurePropagatesWitness ==
  /\ qh.searchFailed
  /\ qh.calls.connect = 1
  /\ search.conn = "closed"
  /\ ~qh.embedFailed
  /\ qh.enable_evaluation

\* C20: an event of either handler that carries action healthcheck, at top
\* level or in its body, is answered 200 with the healthy payload and causes
\* no embedding, store, object-storage or generation call, also when it
\* carries a query or S3 records.
HealthcheckBypassesPipeline ==
  /\ qh.health =>
       qh.pc = "done" /\ qh.status = 200 /\ qh.message = "healthy" /\ NoPipelineCall
  /\ ing.probe =>
       /\ ing.pc = "done" /\ ing.status = 200 /\ ing.message = "healthy"
       /\ ing.run = 0 /\ ~ing.found /\ ing.conn = "none" /\ ing.tmp = "none"
       /\ ing.i = 0 /\ ing.chunk_ids = << >>

\* C20 witness: the query handler has answered a probe that carried a query
\* and the document processor a probe that carried S3 records.
HealthcheckBypassesWitness ==
  /\ qh.health
  /\ qh.query = "text"
  /\ qh.pc = "done"
  /\ ing.probe
  /\ ing.records
  /\ ing.pc = "done"

(***************************************************************************)
(* Further properties of the ingestion pipeline                            *)
(***************************************************************************)

\* The committed chunk rows of run r, in insertion order.
ChunkSeqOf(r) == SelectSeq(chunks, LAMBDA c : c.run = r)

\* C23: process_document handles the chunks one at a time in list order:
\* before chunk i+1 is embedded, chunks 1..i have each had one embedding call
\* and one insert; on success the count returned is the number of chunks and
\* the i-th chunk id returned is the id stored with the i-th chunk, all ids
\* distinct.
ChunksOneAtATime ==
  /\ ing.pc = "embed" => ing.embeds = ing.i /\ ing.inserts = ing.i /\ ing.i < ing.n
  /\ ing.pc = "insert" => ing.embeds = ing.i + 1 /\ ing.inserts = ing.i
  /\ ing.pc \in { "embed", "insert", "commit" } =>
       /\ Len(ing.txn) = ing.inserts
       /\ \A j \in 1..Len(ing.txn) :
            ing.txn[j].content = j /\ ing.txn[j].chunk_id = ing.chunk_ids[j]
  /\ ing.returned =>
       /\ ing.num_chunks = ing.n
       /\ ing.embeds = ing.n /\ ing.inserts = ing.n
       /\ Len(ing.chunk_ids) = ing.n
       /\ Len(ChunkSeqOf(ing.run)) = ing.n
       /\ \A j \in 1..ing.n :
            ChunkSeqOf(ing.run)[j].chunk_id = ing.chunk_ids[j]
              /\ ChunkSeqOf(ing.run)[j].content = j
       /\ \A j, k \in 1..ing.n : j # k => ing.chunk_ids[j] # ing.chunk_ids[k]

\* C23 witness: a run of two chunks has returned.
ChunksOneAtATimeWitness ==
  /\ ing.returned
  /\ ing.n = 2
  /\ ing.num_chunks = 2
  /\ Len(ChunkSeqOf(ing.run)) = 2

\* C24: an invocation that has ended has closed the store connection it
\* opened: process_document, similarity_search and the upload handler.
ConnectionsClosedAtExit ==
  /\ ing.pc = "done" => ing.conn # "open"
  /\ up.pc = "done" => up.conn # "open"
  /\ search.called => search.conn # "open"

\* C26: once the metadata table holds status processed for a document id,
\* no later step makes it hold status uploaded for that id.
ProcessedNeverBackToUploaded ==
  [][ \A x \in metadata :
        x.status = "processed" =>
          ~ \E y \in metadata' : y.document_id = x.document_id /\ y.status = "uploaded" ]_vars

\* C28: the chunk rows of a run are visible all together or not at all: at
\* any moment the store holds either none or all N chunk rows of the run.
ChunkRowsAllOrNone ==
  InRun => Cardinality(ChunkRowsOf(ing.run)) \in { 0, ing.n }

\* C28 witness: a run of two chunks has failed after its first chunk was
\* inserted, and the store holds none of its chunk rows.
ChunkRowsAllOrNoneWitness ==
  /\ InRun
  /\ ing.pc = "done"
  /\ ing.status = 500
  /\ ing.n = 2
  /\ ing.inserts >= 1
  /\ Cardinality(ChunkRowsOf(ing.run)) = 0

\* C30: once process_document has created the temporary file, the file is
\* gone when the function has returned or raised.
TempFileDeletedAtExit ==
  ing.pc \in { "metadata", "done" } => ing.tmp # "exists"

\* C27: after a document was uploaded through the upload handler and then
\* ingested, similarity_search returns each stored chunk at most once: the
\* chunk ids of the result rows are pairwise distinct.
SearchReturnsEachChunkOnce ==
  (/\ search.called
   /\ up.pc = "done" /\ up.status = 200
   /\ ing.returned /\ ing.document_id = up.document_id) =>
    \A i, j \in 1..Len(search.results) :
      i # j => search.results[i].chunk_id # search.results[j].chunk_id

(***************************************************************************)
(* An object key from the upload handler to the ingestion handler          *)
(***************************************************************************)

MaxSegments == 5    \* segments of an object key put by other means

\* The segments such keys are made of.
KeySegments == { UploadsDir, << "x" >>, << "f", ".", "t" >> }

RECURSIVE JoinSlash(_)
\* '/'.join(parts)
JoinSlash(parts) ==
  IF Len(parts) = 1 THEN parts[1]
  ELSE parts[1] \o << "/" >> \o JoinSlash(Tail(parts))

\* The keys of objects put into the bucket by other means.
OtherKeys ==
  { JoinSlash(p) : p \in UNION { [1..n -> KeySegments] : n \in 1..MaxSegments } }

\* Request bodies of the upload handler with file content and a file name;
\* user_id is any string, or absent.
KeyUploadBodies ==
  [ has_user_id : BOOLEAN,
    user_id : { U1, << "u", "/", "1" >>, << >> },
    file_name : { FileAB, << "a", ".", "t" >>, << "a", "+", "b" >>, << "x", "/", "a" >> },
    n : 1..2 ]

\* The upload handler accepts the body and builds the key of the object.
KeyUpload(body) ==
  /\ key_trip.pc = "idle"
  /\ body.file_name # << >>
  /\ LET user_id == IF body.has_user_id THEN body.user_id ELSE SystemUser
         document_id == DocumentId(body.n)
     IN key_trip' = [key_trip EXCEPT !.pc = "put",
                                     !.uploaded = TRUE,
                                     !.user_id = user_id,
                                     !.document_id = document_id,
                                     !.file_name = body.file_name,
                                     !.s3_key = UploadKey(user_id, document_id, body.file_name)]
  /\ UNCHANGED << s3, documents, chunks, metadata, up, ing, nruns, search, uploads, searches, res, ev, qh, dbinit >>

\* An object is put under a key by other means.
KeyOther(key) ==
  /\ key_trip.pc = "idle"
  /\ key_trip' = [key_trip EXCEPT !.pc = "put", !.s3_key = key]
  /\ UNCHANGED << s3, documents, chunks, metadata, up, ing, nruns, search, uploads, searches, res, ev, qh, dbinit >>

\* The object-created notification carries the encoded key.
KeyNotify ==
  /\ key_trip.pc = "put"
  /\ key_trip' = [key_trip EXCEPT !.pc = "event", !.event_key = EventKeyOf(key_trip.s3_key)]
  /\ UNCHANGED << s3, documents, chunks, metadata, up, ing, nruns, search, uploads, searches, res, ev, qh, dbinit >>

\* The ingestion handler decodes the key of the record and reads the tenant,
\* the document id and the file name from it.
KeyParse ==
  /\ key_trip.pc = "event"
  /\ key_trip' = [key_trip EXCEPT !.pc = "parsed",
                                  !.parsed = ParseKey(UnquotePlus(key_trip.event_key))]
  /\ UNCHANGED << s3, documents, chunks, metadata, up, ing, nruns, search, uploads, searches, res, ev, qh, dbinit >>

NextKeys ==
  \/ \E body \in KeyUploadBodies : KeyUpload(body)
  \/ \E key \in OtherKeys : KeyOther(key)
  \/ KeyNotify
  \/ KeyParse

SpecKeys == Init /\ [][NextKeys]_vars

\* The key has the form uploads/{tenant}/{document}/{file name}.
OfUploadsPattern(key) ==
  Len(Split(key)) >= 4 /\ Split(key)[1] = UploadsDir

\* C21: a trigger key of the form uploads/{tenant}/{document}/{file name} is
\* ingested under that tenant and document id; for every other key the
\* tenant is system and the document id is the stem of the file name.
ParsedAsPatternOrDefault ==
  key_trip.pc = "parsed" =>
    LET key == UnquotePlus(key_trip.event_key)
    IN IF OfUploadsPattern(key)
       THEN /\ key_trip.parsed.user_id = Split(key)[2]
            /\ key_trip.parsed.document_id = Split(key)[3]
       ELSE /\ key_trip.parsed.user_id = SystemUser
            /\ key_trip.parsed.document_id = Stem(key)

\* C29: for every tenant id, document id and file name the upload handler
\* accepted, the ingestion handler reads the same three values from the key.
KeyRoundTrip ==
  (key_trip.pc = "parsed" /\ key_trip.uploaded) =>
    /\ key_trip.parsed.user_id = key_trip.user_id
    /\ key_trip.parsed.document_id = key_trip.document_id
    /\ key_trip.parsed.file_name = key_trip.file_name

(***************************************************************************)
(* Database initialisation (db_init.create_database_if_not_exists,         *)
(* db_init.initialize_database)                                            *)
(***************************************************************************)

MaxRetriesBound == 3    \* largest MAX_RETRIES setting explored

DbFunctions == { "create_database_if_not_exists", "initialize_database" }

\* Mutant of CanRetry: the comparison admits one retry more.
CanRetry_Inclusive(d) == d.retry_count <= d.max_retries

\* retry_count < MAX_RETRIES
CanRetry(d) == d.retry_count < d.max_retries

\* A transient failure of the current attempt: sleep and call again while
\* the counter allows it, else return False.
DbTransient(kind) ==
  dbinit' = [dbinit EXCEPT !.outcomes = Append(@, kind),
                           !.pc = IF CanRetry(dbinit) THEN "sleep" ELSE "done",
                           !.result = IF CanRetry(dbinit) THEN "none" ELSE "False"]

\* The function is called with retry_count = 0 under a MAX_RETRIES setting.
DbCall(fn, max_retries) ==
  /\ dbinit.pc = "idle"
  /\ dbinit' = [DbIdle EXCEPT !.pc = "dns", !.fn = fn, !.max_retries = max_retries,
                              !.attempts = 1]
  /\ UNCHANGED << s3, documents, chunks, metadata, up, ing, nruns, search, uploads, searches, res, ev, qh, key_trip >>

\* check_dns_resolution(host) at the head of every attempt.
DbCheckDns(resolved) ==
  /\ dbinit.pc = "dns"
  /\ IF resolved
     THEN dbinit' = [dbinit EXCEPT !.pc = "connect"]
     ELSE DbTransient("dns")
  /\ UNCHANGED << s3, documents, chunks, metadata, up, ing, nruns, search, uploads, searches, res, ev, qh, key_trip >>

\* time.sleep(RETRY_DELAY), then the recursive call with retry_count + 1.
DbSleepRetry ==
  /\ dbinit.pc = "sleep"
  /\ dbinit' = [dbinit EXCEPT !.pc = "dns",
                              !.sleeps = @ + 1,
                              !.retry_count = @ + 1,
                              !.attempts = @ + 1]
  /\ UNCHANGED << s3, documents, chunks, metadata, up, ing, nruns, search, uploads, searches, res, ev, qh, key_trip >>

\* The try block: connect and run the statements.  It ends normally, with
\* psycopg2.OperationalError, or with another exception.
DbConnect(outcome) ==
  /\ dbinit.pc = "connect"
  /\ CASE outcome = "ok" ->
            dbinit' = [dbinit EXCEPT !.outcomes = Append(@, "ok"), !.pc = "done",
                                     !.result = "True"]
       [] outcome = "OperationalError" -> DbTransient("OperationalError")
       [] OTHER ->
            dbinit' = [dbinit EXCEPT !.outcomes = Append(@, "Exception"), !.pc = "done",
                                     !.result = "False"]
  /\ UNCHANGED << s3, documents, chunks, metadata, up, ing, nruns, search, uploads, searches, res, ev, qh, key_trip >>

NextDbInit ==
  \/ \E fn \in DbFunctions, m \in 0..MaxRetriesBound : DbCall(fn, m)
  \/ \E resolved \in BOOLEAN : DbCheckDns(resolved)
  \/ DbSleepRetry
  \/ \E outcome \in { "ok", "OperationalError", "Exception" } : DbConnect(outcome)

\* Every step of a call is taken: the function runs on its own thread.
SpecDbInit == Init /\ [][NextDbInit]_vars /\ WF_vars(NextDbInit)

\* C25: a call of create_database_if_not_exists or initialize_database ends
\* for every sequence of DNS failures and connection errors; both kinds of
\* failure advance one retry counter, so at most MAX_RETRIES + 1 attempts are
\* made, with one sleep before each retry; False is returned when a failure
\* finds the counter exhausted, and any other exception returns False with
\* no retry.
DbInitTerminatesBounded ==
  /\ (dbinit.pc # "idle") ~> (dbinit.pc = "done")
  /\ [](dbinit.pc # "idle" =>
          /\ dbinit.attempts <= dbinit.max_retries + 1
          /\ dbinit.attempts = dbinit.retry_count + 1
          /\ dbinit.sleeps = dbinit.retry_count
          /\ Len(dbinit.outcomes) =
               IF dbinit.pc \in { "dns", "connect" } THEN dbinit.retry_count
               ELSE dbinit.retry_count + 1
          /\ \A i \in 1..dbinit.retry_count :
               dbinit.outcomes[i] \in { "dns", "OperationalError" }
          /\ dbinit.pc = "done" =>
               LET last == dbinit.outcomes[Len(dbinit.outcomes)]
               IN /\ dbinit.result = IF last = "ok" THEN "True" ELSE "False"
                  /\ last \in { "dns", "OperationalError" } =>
                       dbinit.retry_count = dbinit.max_retries)

\* C25 witness: a call has returned False after MAX_RETRIES + 1 attempts in
\* which both a DNS failure and a connection error were retried.
DbInitTerminatesBoundedWitness ==
  /\ dbinit.pc = "done"
  /\ dbinit.result = "False"
  /\ dbinit.max_retries >= 2
  /\ dbinit.attempts = dbinit.max_retries + 1
  /\ dbinit.sleeps = dbinit.max_retries
  /\ \E i, j \in 1..dbinit.max_retries :
       dbinit.outcomes[i] = "dns" /\ dbinit.outcomes[j] = "OperationalError"

====
